---- MODULE Spec2Model ----
(***************************************************************************)
(* Model of the mps_group repository: three Lambda handlers (deploy_model, *)
(* upload_dataset, trigger_pipeline_preprocessing) and the declarations of *)
(* pipeline_stack.py / s3_stack.py that wire them to the managed services. *)
(*                                                                         *)
(* Every boto3 call is one atomic step of the invocation that issues it    *)
(* and may raise.  The SageMaker resources are shared: while an invocation *)
(* runs, other principals (an overlapping invocation of the same Lambda,   *)
(* for which no reserved concurrency is declared) act on them too.         *)
(***************************************************************************)
EXTENDS Integers, Sequences, FiniteSets, TLC

\* ------------------------------------------------------------------ bounds
MaxPackages    == 2
MaxClock       == 1
MaxExecutions  == 2
MaxQueue       == 1
MaxLatency     == 10

\* ------------------------------------------------- deploy Lambda, its env
MODEL_PACKAGE_GROUP_NAME == "IrisModelPackageGroup"
ENDPOINT_NAME            == "iris-classification-endpoint"
ENDPOINT_CONFIG_NAME     == "iris-classification-config"

Groups      == {MODEL_PACKAGE_GROUP_NAME, "OtherGroup"}
Statuses    == {"Approved", "PendingManualApproval"}
EnvKinds    == {"full", "no_role", "missing"}
Outcomes    == {"ok", "ClientError", "OtherError"}
NoPackage   == 0
NoModel     == -1

VARIABLES
    packages,         \* registry: sequence in creation order of [group, status]
    models,           \* SageMaker models: the set of their names
    endpoint_config,  \* does the configuration named ENDPOINT_CONFIG_NAME exist
    endpoint,         \* status of the endpoint named ENDPOINT_NAME
    clock,            \* int(time.time())
    inv,              \* the deploy-handler invocation in progress
    bucket,           \* body of s3://BUCKET_NAME/DATASET_KEY, or "absent"
    up,               \* the upload-handler invocation in progress
    tr,               \* the trigger-handler invocation in progress
    executions,       \* executions of pipeline IrisPipelineV2, in start order
    last_event,       \* the event the deployment rule evaluated last
    deploy_queue,     \* asynchronous invocations of DeployModelLambda pending
    stack_status,     \* CloudFormation status of MpsGroupPipelineStack
    resources,        \* its resources that exist
    touched,          \* its resources the running stack update has updated
    cr_calls,         \* Lambda.invoke calls of each custom resource since the
                      \* last creation of the stack began
    trigger_queue,    \* asynchronous invocations of TriggerPipelineLambda pending
    s3_stack,         \* CloudFormation status of MpsGroupS3Stack
    bt                \* a run of builtin_test.create_builtin_endpoint, with
                      \* its endpoint and the time in seconds

deployVars == <<packages, models, endpoint_config, endpoint, clock, inv>>

uploadVars == <<bucket, up>>

\* the registry (packages) is shared with the deploy handler
pipelineVars == <<tr, executions, last_event, deploy_queue>>

stackVars == <<stack_status, resources, touched, cr_calls, trigger_queue>>

vars == <<deployVars, uploadVars, pipelineVars, stackVars, s3_stack, bt>>

notDeploy == <<uploadVars, pipelineVars, stackVars, s3_stack, bt>>

notUpload == <<deployVars, pipelineVars, stackVars, s3_stack, bt>>

notPipeline ==
    <<models, endpoint_config, endpoint, clock, inv, uploadVars, stackVars,
      s3_stack, bt>>

notStack == <<deployVars, uploadVars, pipelineVars, s3_stack, bt>>

notTest == <<deployVars, uploadVars, pipelineVars, stackVars, s3_stack>>

NoEndpoint == "None"

IdleInvocation ==
    [pc |-> "idle", env |-> "full", model_package_arn |-> NoPackage,
     model_name |-> NoModel, statusCode |-> 0, calls |-> <<>>,
     before |-> [endpoint |-> FALSE, config |-> FALSE], exc |-> ""]

\* inv.env is the environment until the handler has read it; inv.before is
\* what existed when cleanup_existing_resources was entered, while it runs;
\* inv.exc is the exception the last step of the invocation raised, if any.

Call(op, name, ref, ok) == [op |-> op, name |-> name, ref |-> ref, ok |-> ok]

\* ------------------------------------------------- upload Lambda, its env
DATASET_URL == "config.dataset_url"
BUCKET_NAME == "config.bucket_name"
DATASET_KEY == "config.dataset_key"

RequestTypes     == {"Create", "Update", "Delete", "None"}
Contents         == {"iris.csv v1", "iris.csv v2"}
\* urlopen answers 200 and the body is read; answers 200 and read() raises;
\* answers another success status; raises HTTPError or URLError.
DownloadOutcomes == {"200", "200 read error", "204", "error"}
ExceptionClasses == {"KeyError", "Exception", "HTTPError", "IncompleteRead",
                     "ClientError"}

NoResponse == [Status |-> "", Reason |-> "", PhysicalResourceId |-> ""]

IdleUpload ==
    [pc |-> "idle", request_type |-> "None", env |-> TRUE, http |-> "",
     dataset_content |-> "", puts |-> <<>>, downloads |-> 0,
     outcome |-> "", response |-> NoResponse, bucket_before |-> "absent"]

\* ------------------------------------------------ trigger Lambda, its env
PIPELINE_NAME  == "IrisPipelineV2"
INPUT_DATA_URL == "s3://config.bucket_name/config.dataset_key"

NoExecution == 0

IdleTrigger == [pc |-> "idle", calls |-> <<>>, outcome |-> "", response |-> NoExecution]

\* ------------------------------------------------------------ the pipeline
\* Steps of pipeline_definition: the steps named in DependsOn and the steps
\* whose properties the Arguments read with {"Get": "Steps.<name>..."}.
preprocessing_step ==
    [Name |-> "IrisPreprocessing", Type |-> "Processing",
     DependsOn |-> {}, Gets |-> {}]

training_step ==
    [Name |-> "IrisTraining", Type |-> "Training",
     DependsOn |-> {"IrisPreprocessing"}, Gets |-> {"IrisPreprocessing"}]

register_model_step ==
    [Name |-> "RegisterTrainedModel", Type |-> "RegisterModel",
     DependsOn |-> {}, Gets |-> {"IrisTraining"}]

RegisterArguments_PendingApproval ==
    [ModelPackageGroupName |-> "IrisModelPackageGroup",
     ModelApprovalStatus   |-> "PendingManualApproval"]

RegisterArguments ==
    [ModelPackageGroupName |-> "IrisModelPackageGroup",
     ModelApprovalStatus   |-> "Approved"]

Steps == {preprocessing_step, training_step, register_model_step}

StepNames == {st.Name : st \in Steps}

StepNamed(name) == CHOOSE st \in Steps : st.Name = name

NewExecution(input, by) ==
    [status |-> [n \in StepNames |-> "NotStarted"], input |-> input,
     by |-> by, registered |-> NoPackage]

\* ------------------------------------------------------ the deployment rule
Sources     == {"aws.sagemaker", "aws.s3"}
DetailTypes == {"SageMaker Model Package State Change",
                "SageMaker Endpoint State Change"}

Events ==
    [source : Sources, detail_type : DetailTypes,
     ModelPackageGroupName : Groups, ModelApprovalStatus : Statuses]

NoEvent ==
    [source |-> "", detail_type |-> "", ModelPackageGroupName |-> "",
     ModelApprovalStatus |-> ""]

\* ------------------------------------------------------ the pipeline stack
CustomResources == {"TriggerPipelineCustomResource", "DeployLatestModelResource"}

Resources ==
    {"IrisPipeline", "TriggerPipelineLambda", "DeployModelLambda",
     "ModelRegistrationCompletionRule"} \cup CustomResources

\* What a resource refers to, hence what CloudFormation creates before it.
RefersTo(r) ==
    CASE r = "TriggerPipelineCustomResource"   -> {"TriggerPipelineLambda"}
      [] r = "DeployLatestModelResource"       -> {"DeployModelLambda"}
      [] r = "ModelRegistrationCompletionRule" -> {"DeployModelLambda"}
      [] OTHER                                 -> {}

\* ------------------------------------------------------- builtin_test.py
TIMEOUT == 600

SLEEP == 20

TestSamples == 3

EndpointStatuses ==
    {"Creating", "Updating", "InService", "Failed", "OutOfService"}

Latencies == {0, MaxLatency}

IdleTest ==
    [pc |-> "idle", endpoint |-> "None", now |-> 0, start_time |-> 0,
     status |-> "", elapsed |-> 0, requests |-> 0, result |-> "None"]

\* ------------------------------------------------------ SageMaker listing
\* ModelPackageArns of group g with an approval status in ss among the first
\* n registered packages, in ascending creation time.
RECURSIVE Filtered(_, _, _, _)
Filtered(pk, n, g, ss) ==
    IF n = 0 THEN <<>>
    ELSE LET rest == Filtered(pk, n - 1, g, ss)
         IN  IF pk[n].group = g /\ pk[n].status \in ss
             THEN Append(rest, n) ELSE rest

Reverse(sq) == [k \in 1..Len(sq) |-> sq[Len(sq) + 1 - k]]

Truncate(sq, max) == SubSeq(sq, 1, IF Len(sq) < max THEN Len(sq) ELSE max)

\* list_model_packages(ModelPackageGroupName=g, ModelApprovalStatus in ss,
\*                     SortBy='CreationTime', SortOrder=order, MaxResults=max)
list_model_packages(pk, g, ss, order, max) ==
    LET asc == Filtered(pk, Len(pk), g, ss)
    IN  Truncate(IF order = "Descending" THEN Reverse(asc) ELSE asc, max)

\* Step 1 with SortOrder='Ascending'.
ModelPackageSummaryList_Ascending(pk) ==
    list_model_packages(pk, MODEL_PACKAGE_GROUP_NAME, {"Approved"}, "Ascending", 1)

\* Step 1 without the ModelApprovalStatus filter.
ModelPackageSummaryList_AnyStatus(pk) ==
    list_model_packages(pk, MODEL_PACKAGE_GROUP_NAME, Statuses, "Descending", 1)

\* The request the handler sends in Step 1.
ModelPackageSummaryList(pk) ==
    list_model_packages(pk, MODEL_PACKAGE_GROUP_NAME, {"Approved"}, "Descending", 1)

\* ------------------------------------------------------------------- Init
Init ==
    /\ packages = <<>>
    /\ models = {}
    /\ endpoint_config = FALSE
    /\ endpoint = NoEndpoint
    /\ clock = 0
    /\ inv = IdleInvocation
    /\ bucket = "absent"
    /\ up = IdleUpload
    /\ tr = IdleTrigger
    /\ executions = <<>>
    /\ last_event = [event |-> NoEvent, routed |-> FALSE, n |-> 0]
    /\ deploy_queue = 0
    /\ stack_status = "NONE"
    /\ resources = {}
    /\ touched = {}
    /\ cr_calls = [r \in CustomResources |-> 0]
    /\ trigger_queue = 0
    /\ s3_stack = "NONE"
    /\ bt = IdleTest

\* shorthands: the invocation moves to pc p; it logs call c; it returns
Goto(p) == [inv EXCEPT !.pc = p, !.exc = ""]

NotInCleanup == [endpoint |-> FALSE, config |-> FALSE]

Logged(c) == Append(inv.calls, c)

Return(code, calls) ==
    [inv EXCEPT !.pc = "returned", !.statusCode = code, !.calls = calls,
                !.env = "full", !.before = NotInCleanup, !.exc = ""]

\* lines 98-103: except Exception
Handle(exc, calls) == [Return(500, calls) EXCEPT !.exc = exc]

\* lines 120, 130: what the except clauses of the cleanup catch
CleanupCatches_Everything(exc) == exc # ""

CleanupCatches(exc) == exc = "ClientError"

\* pipeline_stack.py line 310: the Lambda service ends an invocation that
\* runs for more than 300 seconds; nothing is returned.
Kill(calls) ==
    [inv EXCEPT !.pc = "killed", !.calls = calls, !.env = "full",
                !.before = NotInCleanup, !.exc = ""]

\* ----------------------------------------------------------- environment
\* A model package is registered (by the pipeline's RegisterModel step or by
\* anybody else) in some group with some approval status.
RegisterModelPackage(g, s) ==
    /\ Len(packages) < MaxPackages
    /\ packages' = Append(packages, [group |-> g, status |-> s])
    /\ UNCHANGED <<models, endpoint_config, endpoint, clock, inv>>
    /\ UNCHANGED notDeploy

\* Somebody changes the approval status of a registered package.
UpdateModelPackage(p, s) ==
    /\ p \in 1..Len(packages)
    /\ packages[p].status # s
    /\ packages' = [packages EXCEPT ![p].status = s]
    /\ UNCHANGED <<models, endpoint_config, endpoint, clock, inv>>
    /\ UNCHANGED notDeploy

\* A second passes.
Tick ==
    /\ clock < MaxClock
    /\ clock' = clock + 1
    /\ UNCHANGED <<packages, models, endpoint_config, endpoint, inv>>
    /\ UNCHANGED notDeploy

\* SageMaker finishes an asynchronous endpoint operation.
EndpointSettles ==
    /\ endpoint \in {"Creating", "Deleting"}
    /\ endpoint' = IF endpoint = "Deleting" THEN NoEndpoint ELSE "InService"
    /\ UNCHANGED <<packages, models, endpoint_config, clock, inv>>
    /\ UNCHANGED notDeploy

\* --------------------------------------------- overlapping invocations
\* Effects on the endpoint and its configuration of another invocation of
\* the same handler that runs at the same time: its cleanup, its Steps 4, 5.
other_delete_endpoint ==
    /\ endpoint # NoEndpoint
    /\ endpoint' = "Deleting"
    /\ UNCHANGED <<packages, models, endpoint_config, clock, inv>>
    /\ UNCHANGED notDeploy

other_delete_endpoint_config ==
    /\ endpoint_config
    /\ endpoint_config' = FALSE
    /\ UNCHANGED <<packages, models, endpoint, clock, inv>>
    /\ UNCHANGED notDeploy

other_create_endpoint_config ==
    /\ ~endpoint_config
    /\ endpoint_config' = TRUE
    /\ UNCHANGED <<packages, models, endpoint, clock, inv>>
    /\ UNCHANGED notDeploy

other_create_endpoint ==
    /\ endpoint = NoEndpoint
    /\ endpoint_config
    /\ endpoint' = "Creating"
    /\ UNCHANGED <<packages, models, endpoint_config, clock, inv>>
    /\ UNCHANGED notDeploy

other_invocation ==
    \/ other_delete_endpoint
    \/ other_delete_endpoint_config
    \/ other_create_endpoint_config
    \/ other_create_endpoint

\* --------------------------------------------------- deploy_model.handler
\* The Lambda service starts an invocation (EventBridge rule target or the
\* DeployLatestModelResource custom resource) with some environment.
handler_invoke(env) ==
    /\ inv.pc = "idle"
    /\ inv' = [IdleInvocation EXCEPT !.pc = "env", !.env = env]
    /\ UNCHANGED <<packages, models, endpoint_config, endpoint, clock>>
    /\ UNCHANGED notDeploy

\* lines 21-24: os.environ[...] raises KeyError when a variable is missing.
handler_env ==
    /\ inv.pc = "env"
    /\ inv' = IF inv.env = "missing"
              THEN Handle("KeyError", inv.calls)
              ELSE Goto("list")
    /\ UNCHANGED <<packages, models, endpoint_config, endpoint, clock>>
    /\ UNCHANGED notDeploy

\* lines 27-42: Step 1.
handler_list ==
    /\ inv.pc = "list"
    /\ \E ok \in BOOLEAN :
         LET resp  == ModelPackageSummaryList(packages)
             calls == Logged(Call("list_model_packages", NoModel,
                                  IF ok /\ resp # <<>> THEN resp[1] ELSE NoPackage, ok))
         IN  inv' = IF ~ok THEN Handle("ClientError", calls)
                    ELSE IF resp = <<>> THEN Return(404, calls)
                    ELSE [inv EXCEPT !.pc = "prepare",
                                     !.calls = calls,
                                     !.model_package_arn = resp[1]]
    /\ UNCHANGED <<packages, models, endpoint_config, endpoint, clock>>
    /\ UNCHANGED notDeploy

\* lines 45-50: the model name is fixed from the clock; the execution role
\* comes from the environment or from get_execution_role().
get_execution_role(found) == found

handler_prepare ==
    /\ inv.pc = "prepare"
    /\ \E found \in BOOLEAN :
         inv' = IF inv.env = "no_role" /\ ~get_execution_role(found)
                THEN Handle("ClientError", inv.calls)
                ELSE [inv EXCEPT !.pc = "create_model", !.env = "full",
                                 !.model_name = clock]
    /\ UNCHANGED <<packages, models, endpoint_config, endpoint, clock>>
    /\ UNCHANGED notDeploy

\* lines 52-58: Step 2.  Model names are unique in the account.
handler_create_model ==
    /\ inv.pc = "create_model"
    /\ \E fault \in BOOLEAN :
         LET name  == inv.model_name
             ok    == ~fault /\ name \notin models
             calls == Logged(Call("create_model", name, inv.model_package_arn, ok))
         IN  /\ models' = IF ok THEN models \cup {name} ELSE models
             /\ inv' = IF ok
                       THEN [inv EXCEPT !.pc = "describe_endpoint",
                                        !.calls = calls,
                                        !.before =
                                            [endpoint |-> endpoint # NoEndpoint,
                                             config   |-> endpoint_config]]
                       ELSE Handle("ClientError", calls)
    /\ UNCHANGED <<packages, endpoint_config, endpoint, clock>>
    /\ UNCHANGED notDeploy

\* ---------------------------------------------- cleanup_existing_resources
\* line 111: describe_endpoint raises ClientError when the endpoint does not
\* exist; the except clause of line 120 takes every ClientError that way.
cleanup_describe_endpoint ==
    /\ inv.pc = "describe_endpoint"
    /\ \E o \in Outcomes :
         LET res == IF endpoint = NoEndpoint /\ o = "ok" THEN "ClientError" ELSE o
         IN  inv' = CASE res = "ok"          -> Goto("delete_endpoint")
                      [] CleanupCatches(res) ->
                              [inv EXCEPT !.pc = "describe_config", !.exc = res]
                      [] OTHER               -> Handle(res, inv.calls)
    /\ UNCHANGED <<packages, models, endpoint_config, endpoint, clock>>
    /\ UNCHANGED notDeploy

\* line 113 without lines 116-117
cleanup_delete_endpoint_SkipsWait ==
    /\ inv.pc = "delete_endpoint"
    /\ \E o \in Outcomes :
         LET res   == IF endpoint = NoEndpoint /\ o = "ok" THEN "ClientError" ELSE o
             calls == Logged(Call("delete_endpoint", NoModel, NoPackage, res = "ok"))
         IN  /\ endpoint' = IF res = "ok" THEN "Deleting" ELSE endpoint
             /\ inv' = IF res = "ok" \/ CleanupCatches(res)
                       THEN [inv EXCEPT !.pc = "describe_config", !.calls = calls,
                                        !.exc = IF res = "ok" THEN "" ELSE res]
                       ELSE Handle(res, calls)
    /\ UNCHANGED <<packages, models, endpoint_config, clock>>
    /\ UNCHANGED notDeploy

\* line 113
cleanup_delete_endpoint ==
    /\ inv.pc = "delete_endpoint"
    /\ \E o \in Outcomes :
         LET res   == IF endpoint = NoEndpoint /\ o = "ok" THEN "ClientError" ELSE o
             calls == Logged(Call("delete_endpoint", NoModel, NoPackage, res = "ok"))
         IN  /\ endpoint' = IF res = "ok" THEN "Deleting" ELSE endpoint
             /\ inv' = CASE res = "ok" ->
                              [inv EXCEPT !.pc = "wait", !.calls = calls]
                         [] CleanupCatches(res) ->
                              [inv EXCEPT !.pc = "describe_config", !.calls = calls,
                                          !.exc = res]
                         [] OTHER -> Handle(res, calls)
    /\ UNCHANGED <<packages, models, endpoint_config, clock>>
    /\ UNCHANGED notDeploy

\* lines 116-117: the endpoint_deleted waiter returns once describe_endpoint
\* reports that the endpoint is gone, and raises WaiterError (not a
\* ClientError) when it gives up.  It polls every 30 seconds up to 60
\* times, so the Lambda timeout can end the invocation while it waits.
cleanup_wait ==
    /\ inv.pc = "wait"
    /\ \E o \in {"ok", "WaiterError", "timeout"} :
         /\ o = "ok" => endpoint = NoEndpoint
         /\ inv' = LET calls == Logged(Call("endpoint_deleted", NoModel, NoPackage, o = "ok"))
                   IN  CASE o = "ok" ->
                                [inv EXCEPT !.pc = "describe_config", !.calls = calls]
                         [] o = "timeout" -> Kill(calls)
                         [] CleanupCatches(o) ->
                                [inv EXCEPT !.pc = "describe_config", !.calls = calls,
                                            !.exc = o]
                         [] OTHER -> Handle(o, calls)
    /\ UNCHANGED <<packages, models, endpoint_config, endpoint, clock>>
    /\ UNCHANGED notDeploy

\* line 125
cleanup_describe_config ==
    /\ inv.pc = "describe_config"
    /\ \E o \in Outcomes :
         LET res == IF ~endpoint_config /\ o = "ok" THEN "ClientError" ELSE o
         IN  inv' = CASE res = "ok"          -> Goto("delete_config")
                      [] CleanupCatches(res) ->
                              [inv EXCEPT !.pc = "create_config",
                                          !.before = NotInCleanup, !.exc = res]
                      [] OTHER               -> Handle(res, inv.calls)
    /\ UNCHANGED <<packages, models, endpoint_config, endpoint, clock>>
    /\ UNCHANGED notDeploy

\* line 127
cleanup_delete_config ==
    /\ inv.pc = "delete_config"
    /\ \E o \in Outcomes :
         LET res   == IF ~endpoint_config /\ o = "ok" THEN "ClientError" ELSE o
             calls == Logged(Call("delete_endpoint_config", NoModel, NoPackage, res = "ok"))
         IN  /\ endpoint_config' = IF res = "ok" THEN FALSE ELSE endpoint_config
             /\ inv' = IF res = "ok" \/ CleanupCatches(res)
                       THEN [inv EXCEPT !.pc = "create_config", !.calls = calls,
                                        !.before = NotInCleanup,
                                        !.exc = IF res = "ok" THEN "" ELSE res]
                       ELSE Handle(res, calls)
    /\ UNCHANGED <<packages, models, endpoint, clock>>
    /\ UNCHANGED notDeploy

\* lines 65-74: Step 4.  The name must be free.
handler_create_endpoint_config ==
    /\ inv.pc = "create_config"
    /\ \E fault \in BOOLEAN :
         LET ok    == ~fault /\ ~endpoint_config
             calls == Logged(Call("create_endpoint_config", inv.model_name,
                                     NoPackage, ok))
         IN  /\ endpoint_config' = (ok \/ endpoint_config)
             /\ inv' = IF ok
                       THEN [inv EXCEPT !.pc = "create_endpoint", !.calls = calls,
                                        !.exc = ""]
                       ELSE Handle("ClientError", calls)
    /\ UNCHANGED <<packages, models, endpoint, clock>>
    /\ UNCHANGED notDeploy

\* lines 78-96: Step 5.  The name must be free and the configuration exist.
handler_create_endpoint ==
    /\ inv.pc = "create_endpoint"
    /\ \E fault \in BOOLEAN :
         LET ok    == ~fault /\ endpoint = NoEndpoint /\ endpoint_config
             calls == Logged(Call("create_endpoint", NoModel, NoPackage, ok))
         IN  /\ endpoint' = IF ok THEN "Creating" ELSE endpoint
             /\ inv' = IF ok THEN Return(202, calls)
                       ELSE Handle("ClientError", calls)
    /\ UNCHANGED <<packages, models, endpoint_config, clock>>
    /\ UNCHANGED notDeploy

\* The invocation is over; the slot serves the next one.
handler_exit ==
    /\ inv.pc \in {"returned", "killed"}
    /\ inv' = IdleInvocation
    /\ UNCHANGED <<packages, models, endpoint_config, endpoint, clock>>
    /\ UNCHANGED notDeploy

handler ==
    \/ \E env \in EnvKinds : handler_invoke(env)
    \/ handler_env
    \/ handler_list
    \/ handler_prepare
    \/ handler_create_model
    \/ cleanup_describe_endpoint
    \/ cleanup_delete_endpoint
    \/ cleanup_wait
    \/ cleanup_describe_config
    \/ cleanup_delete_config
    \/ handler_create_endpoint_config
    \/ handler_create_endpoint
    \/ handler_exit

Next ==
    \/ \E g \in Groups, s \in Statuses : RegisterModelPackage(g, s)
    \/ \E p \in 1..MaxPackages, s \in Statuses : UpdateModelPackage(p, s)
    \/ Tick
    \/ EndpointSettles
    \/ other_invocation
    \/ handler

Spec == Init /\ [][Next]_vars

\* ================================== trigger_pipeline_preprocessing.handler
\* lines 9-14
PipelineParameters_Omitted == <<>>

PipelineParameters == <<[Name |-> "InputDataUrl", Value |-> INPUT_DATA_URL]>>

\* The value an execution gives to parameter InputDataUrl: the one passed
\* in the request, else the DefaultValue of pipeline_definition.
ResolveInput(params) ==
    IF \E k \in 1..Len(params) : params[k].Name = "InputDataUrl"
    THEN (CHOOSE pr \in {params[k] : k \in 1..Len(params)} :
              pr.Name = "InputDataUrl").Value
    ELSE "s3://config.bucket_name/config.dataset_key (default)"

\* The Lambda service starts an invocation of the trigger handler.
trigger_invoke ==
    /\ tr.pc = "idle"
    /\ tr' = [IdleTrigger EXCEPT !.pc = "start"]
    /\ UNCHANGED <<packages, executions, last_event, deploy_queue>>
    /\ UNCHANGED notPipeline

\* lines 7-16: the call starts an execution and the handler returns its
\* ARN, or the call raises and so does the handler.
trigger_start_pipeline_execution(ok) ==
    /\ tr.pc = "start"
    /\ ok => Len(executions) < MaxExecutions
    /\ LET arn  == IF ok THEN Len(executions) + 1 ELSE NoExecution
           call == [PipelineName |-> PIPELINE_NAME,
                    PipelineParameters |-> PipelineParameters,
                    ok |-> ok, arn |-> arn]
       IN  /\ executions' =
                 IF ok THEN Append(executions,
                                   NewExecution(ResolveInput(call.PipelineParameters),
                                                "trigger"))
                 ELSE executions
           /\ tr' = [tr EXCEPT !.pc = "done", !.calls = Append(@, call),
                               !.outcome = IF ok THEN "returned" ELSE "raised",
                               !.response = arn]
    /\ UNCHANGED <<packages, last_event, deploy_queue>>
    /\ UNCHANGED notPipeline

\* The invocation is over.
trigger_exit ==
    /\ tr.pc = "done"
    /\ tr' = IdleTrigger
    /\ UNCHANGED <<packages, executions, last_event, deploy_queue>>
    /\ UNCHANGED notPipeline

\* test/run_pipeline.py, or anybody, starts an execution.
run_pipeline ==
    /\ Len(executions) < MaxExecutions
    /\ executions' = Append(executions, NewExecution(INPUT_DATA_URL, "other"))
    /\ UNCHANGED <<packages, tr, last_event, deploy_queue>>
    /\ UNCHANGED notPipeline

\* ----------------------------------------------------- pipeline execution
\* A step waits for the steps it depends on.
StepDependencies_DependsOnOnly(st) == st.DependsOn

StepDependencies(st) == st.DependsOn \cup st.Gets

ExecutionFailed(x) == \E n \in StepNames : executions[x].status[n] = "Failed"

\* The orchestrator starts a step whose dependencies have all succeeded.
StartStep(x, name) ==
    /\ x \in 1..Len(executions)
    /\ ~ExecutionFailed(x)
    /\ executions[x].status[name] = "NotStarted"
    /\ \A d \in StepDependencies(StepNamed(name)) :
           executions[x].status[d] = "Succeeded"
    /\ executions' = [executions EXCEPT ![x].status[name] = "Executing"]
    /\ UNCHANGED <<packages, tr, last_event, deploy_queue>>
    /\ UNCHANGED notPipeline

\* The rule's event pattern: every key must hold one of the listed values.
PatternFields_NoStatus ==
    {<<"source", {"aws.sagemaker"}>>,
     <<"detail_type", {"SageMaker Model Package State Change"}>>,
     <<"ModelPackageGroupName", {"IrisModelPackageGroup"}>>}

PatternFields ==
    {<<"source", {"aws.sagemaker"}>>,
     <<"detail_type", {"SageMaker Model Package State Change"}>>,
     <<"ModelPackageGroupName", {"IrisModelPackageGroup"}>>,
     <<"ModelApprovalStatus", {"Approved"}>>}

Matches(e) == \A f \in PatternFields : e[f[1]] \in f[2]

\* ModelRegistrationCompletionRule evaluates an event on the bus; its
\* target is the deploy Lambda.
Evaluated(e) ==
    /\ last_event' = [event |-> e, routed |-> Matches(e), n |-> 1 - last_event.n]
    /\ deploy_queue' = IF Matches(e) THEN deploy_queue + 1 ELSE deploy_queue

StateChangeEvent(pkg) ==
    [source |-> "aws.sagemaker",
     detail_type |-> "SageMaker Model Package State Change",
     ModelPackageGroupName |-> pkg.group, ModelApprovalStatus |-> pkg.status]

\* A step other than registration ends.
FinishStep(x, name, ok) ==
    /\ x \in 1..Len(executions)
    /\ executions[x].status[name] = "Executing"
    /\ StepNamed(name).Type # "RegisterModel" \/ ~ok
    /\ executions' = [executions EXCEPT
                         ![x].status[name] = IF ok THEN "Succeeded" ELSE "Failed"]
    /\ UNCHANGED <<packages, tr, last_event, deploy_queue>>
    /\ UNCHANGED notPipeline

\* The registration step succeeds: the package enters the registry and
\* SageMaker publishes its state change.
FinishRegister(x, name) ==
    /\ x \in 1..Len(executions)
    /\ executions[x].status[name] = "Executing"
    /\ StepNamed(name).Type = "RegisterModel"
    /\ Len(packages) < MaxPackages
    /\ deploy_queue < MaxQueue
    /\ LET pkg == [group  |-> RegisterArguments.ModelPackageGroupName,
                   status |-> RegisterArguments.ModelApprovalStatus]
       IN  /\ packages' = Append(packages, pkg)
           /\ executions' = [executions EXCEPT
                                ![x].status[name] = "Succeeded",
                                ![x].registered = Len(packages) + 1]
           /\ Evaluated(StateChangeEvent(pkg))
    /\ UNCHANGED tr
    /\ UNCHANGED notPipeline

\* SageMaker publishes the state of a package that was registered or whose
\* approval status was changed.
publish_state_change(p) ==
    /\ p \in 1..Len(packages)
    /\ deploy_queue < MaxQueue
    /\ Evaluated(StateChangeEvent(packages[p]))
    /\ UNCHANGED <<packages, tr, executions>>
    /\ UNCHANGED notPipeline

\* Any other event reaches the bus.
other_event(e) ==
    /\ deploy_queue < MaxQueue
    /\ Evaluated(e)
    /\ UNCHANGED <<packages, tr, executions>>
    /\ UNCHANGED notPipeline

\* The Lambda service runs a pending invocation of the deploy handler.
deploy_dequeue ==
    /\ deploy_queue > 0
    /\ deploy_queue' = deploy_queue - 1
    /\ UNCHANGED <<packages, tr, executions, last_event>>
    /\ UNCHANGED notPipeline

NextPipeline ==
    \/ trigger_invoke
    \/ \E ok \in BOOLEAN : trigger_start_pipeline_execution(ok)
    \/ trigger_exit
    \/ run_pipeline
    \/ \E x \in 1..MaxExecutions, n \in StepNames : StartStep(x, n)
    \/ \E x \in 1..MaxExecutions, n \in StepNames, ok \in BOOLEAN : FinishStep(x, n, ok)
    \/ \E x \in 1..MaxExecutions, n \in StepNames : FinishRegister(x, n)
    \/ deploy_dequeue

SpecPipeline == Init /\ [][NextPipeline]_vars

\* The Lambda service delivers every asynchronous invocation it has queued.
SpecPipelineLive == SpecPipeline /\ WF_vars(deploy_dequeue)

\* The rule alone, fed by the registry and by every other event.
NextRule ==
    \/ \E g \in Groups, s \in Statuses : RegisterModelPackage(g, s)
    \/ \E p \in 1..MaxPackages, s \in Statuses : UpdateModelPackage(p, s)
    \/ \E p \in 1..MaxPackages : publish_state_change(p)
    \/ \E e \in Events : other_event(e)
    \/ deploy_dequeue

SpecRule == Init /\ [][NextRule]_vars

\* ====================================================== the pipeline stack
\* The calls both AwsCustomResource constructs declare.
AwsSdkCalls_OnUpdate ==
    [on_create |-> "none", on_update |-> "Lambda.invoke", on_delete |-> "none"]

AwsSdkCalls ==
    [on_create |-> "Lambda.invoke", on_update |-> "none", on_delete |-> "none"]

\* The call an AwsCustomResource makes for a CloudFormation request type;
\* on_create falls back to on_update when it is not given.
CallFor(request_type) ==
    CASE request_type = "Create" ->
             IF AwsSdkCalls.on_create # "none" THEN AwsSdkCalls.on_create
             ELSE AwsSdkCalls.on_update
      [] request_type = "Update" -> AwsSdkCalls.on_update
      [] request_type = "Delete" -> AwsSdkCalls.on_delete

\* cr_calls after resource r has handled a request, its call succeeding.
Handled(r, request_type) ==
    IF r \in CustomResources /\ CallFor(request_type) = "Lambda.invoke"
    THEN [cr_calls EXCEPT ![r] = @ + 1]
    ELSE cr_calls

\* The asynchronous invocations of TriggerPipelineLambda after resource r
\* has handled a request, its call succeeding.
Queued(r, request_type) ==
    IF r = "TriggerPipelineCustomResource" /\ CallFor(request_type) = "Lambda.invoke"
    THEN trigger_queue + 1
    ELSE trigger_queue

create_stack ==
    /\ stack_status = "NONE"
    /\ stack_status' = "CREATE_IN_PROGRESS"
    /\ cr_calls' = [r \in CustomResources |-> 0]
    /\ UNCHANGED <<resources, touched, trigger_queue>>
    /\ UNCHANGED notStack

\* CloudFormation creates a resource once all it refers to exist; when the
\* creation fails the stack rolls back.
create_resource(r, ok, called) ==
    /\ stack_status = "CREATE_IN_PROGRESS"
    /\ r \in Resources \ resources
    /\ RefersTo(r) \subseteq resources
    /\ ok => called
    /\ cr_calls' = IF called THEN Handled(r, "Create") ELSE cr_calls
    /\ trigger_queue' = IF called THEN Queued(r, "Create") ELSE trigger_queue
    /\ trigger_queue' <= MaxQueue
    /\ resources' = IF ok THEN resources \cup {r} ELSE resources
    /\ stack_status' = IF ~ok THEN "ROLLBACK_IN_PROGRESS"
                       ELSE IF resources' = Resources THEN "CREATE_COMPLETE"
                       ELSE stack_status
    /\ UNCHANGED touched
    /\ UNCHANGED notStack

update_stack ==
    /\ stack_status \in {"CREATE_COMPLETE", "UPDATE_COMPLETE"}
    /\ stack_status' = "UPDATE_IN_PROGRESS"
    /\ touched' = {}
    /\ UNCHANGED <<resources, cr_calls, trigger_queue>>
    /\ UNCHANGED notStack

\* The update reaches a resource whose properties changed.
update_resource(r) ==
    /\ stack_status = "UPDATE_IN_PROGRESS"
    /\ r \in resources \ touched
    /\ touched' = touched \cup {r}
    /\ cr_calls' = Handled(r, "Update")
    /\ trigger_queue' = Queued(r, "Update")
    /\ trigger_queue' <= MaxQueue
    /\ UNCHANGED <<stack_status, resources>>
    /\ UNCHANGED notStack

update_complete ==
    /\ stack_status = "UPDATE_IN_PROGRESS"
    /\ stack_status' = "UPDATE_COMPLETE"
    /\ touched' = {}
    /\ UNCHANGED <<resources, cr_calls, trigger_queue>>
    /\ UNCHANGED notStack

delete_stack ==
    /\ stack_status \in {"CREATE_COMPLETE", "UPDATE_COMPLETE"}
    /\ stack_status' = "DELETE_IN_PROGRESS"
    /\ UNCHANGED <<resources, touched, cr_calls, trigger_queue>>
    /\ UNCHANGED notStack

\* A deletion or a rollback removes a resource nothing left refers to.
delete_resource(r) ==
    /\ stack_status \in {"DELETE_IN_PROGRESS", "ROLLBACK_IN_PROGRESS"}
    /\ r \in resources
    /\ \A q \in resources : r \notin RefersTo(q)
    /\ resources' = resources \ {r}
    /\ cr_calls' = Handled(r, "Delete")
    /\ trigger_queue' = Queued(r, "Delete")
    /\ trigger_queue' <= MaxQueue
    /\ UNCHANGED <<stack_status, touched>>
    /\ UNCHANGED notStack

delete_complete ==
    /\ stack_status \in {"DELETE_IN_PROGRESS", "ROLLBACK_IN_PROGRESS"}
    /\ resources = {}
    /\ stack_status' = "NONE"
    /\ UNCHANGED <<resources, touched, cr_calls, trigger_queue>>
    /\ UNCHANGED notStack

\* The Lambda service starts the invocation of the trigger handler that
\* the custom resource queued.
cr_trigger_invoke ==
    /\ trigger_queue > 0
    /\ tr.pc = "idle"
    /\ trigger_queue' = trigger_queue - 1
    /\ tr' = [IdleTrigger EXCEPT !.pc = "start"]
    /\ UNCHANGED <<stack_status, resources, touched, cr_calls>>
    /\ UNCHANGED <<packages, executions, last_event, deploy_queue>>
    /\ UNCHANGED <<deployVars, uploadVars, s3_stack, bt>>

NextStack ==
    \/ create_stack
    \/ \E r \in Resources, ok \in BOOLEAN, called \in BOOLEAN :
           create_resource(r, ok, called)
    \/ update_stack
    \/ \E r \in Resources : update_resource(r)
    \/ update_complete
    \/ delete_stack
    \/ \E r \in Resources : delete_resource(r)
    \/ delete_complete
    \/ cr_trigger_invoke
    \/ \E ok \in BOOLEAN : trigger_start_pipeline_execution(ok)
    \/ trigger_exit

SpecStack == Init /\ [][NextStack]_vars

\* ================================================= upload_dataset.handler
\* line 13
IsDelete_UpperCase(request_type) == request_type = "DELETE"

IsDelete(request_type) == request_type = "Delete"

\* lines 31-34: the body is used when the status is 200 and read() returns.
DownloadCompletes_NoStatusCheck(outcome) == outcome \in {"200", "204"}

DownloadCompletes(outcome) == outcome = "200"

\* line 52: except Exception
Caught_ClientErrorOnly(exc) == exc = "ClientError"

Caught(exc) == exc \in ExceptionClasses

\* lines 44-50
success_response_FixedId(object_key) ==
    [Status |-> "SUCCESS", Reason |-> "", PhysicalResourceId |-> "dataset-upload"]

success_response(object_key) ==
    [Status |-> "SUCCESS", Reason |-> "", PhysicalResourceId |-> object_key]

\* lines 54-58
failed_response(exc) ==
    [Status |-> "FAILED", Reason |-> exc, PhysicalResourceId |-> "upload-failed"]

UploadReturn(u, resp) == [u EXCEPT !.pc = "returned", !.outcome = "returned",
                                   !.response = resp]

\* An exception leaves the try block.
UploadFail(u, exc) ==
    IF Caught(exc) THEN UploadReturn(u, failed_response(exc))
    ELSE [u EXCEPT !.pc = "returned", !.outcome = "raised"]

\* The custom-resource provider invokes the handler with an event.
upload_invoke(request_type, env) ==
    /\ up.pc = "idle"
    /\ up' = [IdleUpload EXCEPT !.pc = "request_type", !.request_type = request_type,
                                !.env = env, !.bucket_before = bucket]
    /\ UNCHANGED bucket
    /\ UNCHANGED notUpload

\* lines 12-14
upload_request_type ==
    /\ up.pc = "request_type"
    /\ up' = IF IsDelete(up.request_type)
             THEN UploadReturn(up, [NoResponse EXCEPT !.Status = "SUCCESS"])
             ELSE [up EXCEPT !.pc = "env"]
    /\ UNCHANGED bucket
    /\ UNCHANGED notUpload

\* lines 17-19
upload_env ==
    /\ up.pc = "env"
    /\ up' = IF up.env THEN [up EXCEPT !.pc = "download"]
             ELSE UploadFail(up, "KeyError")
    /\ UNCHANGED bucket
    /\ UNCHANGED notUpload

\* lines 30-34
upload_download(outcome, content) ==
    /\ up.pc = "download"
    /\ LET u == [up EXCEPT !.http = outcome, !.downloads = @ + 1]
       IN  up' = IF DownloadCompletes(outcome)
                 THEN [u EXCEPT !.pc = "put", !.dataset_content = content]
                 ELSE UploadFail(u, CASE outcome = "error" -> "HTTPError"
                                      [] outcome = "200 read error" -> "IncompleteRead"
                                      [] OTHER -> "Exception")
    /\ UNCHANGED bucket
    /\ UNCHANGED notUpload

\* lines 37-50
upload_put(ok) ==
    /\ up.pc = "put"
    /\ LET u == [up EXCEPT !.puts = Append(@, [Bucket |-> BUCKET_NAME,
                                              Key |-> DATASET_KEY,
                                              Body |-> up.dataset_content,
                                              ok |-> ok])]
       IN  /\ up' = IF ok THEN UploadReturn(u, success_response(DATASET_KEY))
                     ELSE UploadFail(u, "ClientError")
           /\ bucket' = IF ok THEN up.dataset_content ELSE bucket
    /\ UNCHANGED notUpload

\* The invocation is over.
upload_exit ==
    /\ up.pc = "returned"
    /\ up' = IdleUpload
    /\ UNCHANGED bucket
    /\ UNCHANGED notUpload

NextUpload ==
    \/ \E rt \in RequestTypes, env \in BOOLEAN : upload_invoke(rt, env)
    \/ upload_request_type
    \/ upload_env
    \/ \E o \in DownloadOutcomes, c \in Contents : upload_download(o, c)
    \/ \E ok \in BOOLEAN : upload_put(ok)
    \/ upload_exit

SpecUpload == Init /\ [][NextUpload]_vars

\* ========================================= builtin_test.create_builtin_endpoint
\* lines 97-104: create_endpoint, then the wait begins.
test_create_endpoint(ok) ==
    /\ bt.pc = "idle"
    /\ bt' = IF ok
             THEN [bt EXCEPT !.pc = "describe", !.endpoint = "Creating",
                             !.start_time = bt.now]
             ELSE [bt EXCEPT !.pc = "returned", !.result = "False"]
    /\ UNCHANGED notTest

\* SageMaker moves the endpoint to another status.
test_endpoint_status(st) ==
    /\ bt.pc \in {"describe", "sleep", "test"}
    /\ st \in EndpointStatuses \ {bt.endpoint}
    /\ bt' = [bt EXCEPT !.endpoint = st]
    /\ UNCHANGED notTest

\* line 116
FailedStatuses == {"Failed", "OutOfService"}

\* line 122
TimedOut_AtTimeout(elapsed) == elapsed >= TIMEOUT

TimedOut(elapsed) == elapsed > TIMEOUT

\* lines 107-124: one pass of the loop up to the sleep; describe_endpoint
\* takes some time and returns the status or raises (lines 187-189).
wait_iteration(ok, latency) ==
    /\ bt.pc = "describe"
    /\ LET now     == bt.now + latency
           elapsed == now - bt.start_time
           b       == [bt EXCEPT !.now = now]
           seen    == [b EXCEPT !.status = bt.endpoint, !.elapsed = elapsed]
       IN  bt' = IF ~ok
                 THEN [b EXCEPT !.pc = "returned", !.result = "False", !.status = ""]
                 ELSE IF bt.endpoint = "InService"
                 THEN [seen EXCEPT !.pc = "test"]
                 ELSE IF bt.endpoint \in FailedStatuses
                 THEN [seen EXCEPT !.pc = "returned", !.result = "False"]
                 ELSE IF TimedOut(elapsed)
                 THEN [seen EXCEPT !.pc = "returned", !.result = "False"]
                 ELSE [seen EXCEPT !.pc = "sleep"]
    /\ UNCHANGED notTest

\* line 126
wait_sleep ==
    /\ bt.pc = "sleep"
    /\ bt' = [bt EXCEPT !.pc = "describe", !.now = @ + SLEEP]
    /\ UNCHANGED notTest

\* lines 138-159: one inference request per test sample; a failed request
\* is printed and the next sample follows.
test_invoke_endpoint ==
    /\ bt.pc = "test"
    /\ bt.requests < TestSamples
    /\ bt' = [bt EXCEPT !.requests = @ + 1]
    /\ UNCHANGED notTest

\* lines 161-189: the run ends, True unless the clean-up raised.
test_return(ok) ==
    /\ bt.pc = "test"
    /\ bt.requests = TestSamples
    /\ bt' = [bt EXCEPT !.pc = "returned",
                        !.result = IF ok THEN "True" ELSE "False"]
    /\ UNCHANGED notTest

NextWait ==
    \/ \E ok \in BOOLEAN : test_create_endpoint(ok)
    \/ \E st \in EndpointStatuses : test_endpoint_status(st)
    \/ \E ok \in BOOLEAN, latency \in Latencies : wait_iteration(ok, latency)
    \/ wait_sleep
    \/ test_invoke_endpoint
    \/ \E ok \in BOOLEAN : test_return(ok)

SpecWait == Init /\ [][NextWait]_vars

\* The script is one running process: a call it makes returns or raises,
\* and a sleep ends.
SpecWaitLive ==
    /\ SpecWait
    /\ WF_vars(\E ok \in BOOLEAN, latency \in Latencies : wait_iteration(ok, latency))
    /\ WF_vars(wait_sleep)

\* ================================================ deployment of the app
\* app.py lines 19-34: MpsGroupS3Stack and MpsGroupPipelineStack are
\* separate stacks and neither refers to the other; each is created on its
\* own.
s3_create_stack ==
    /\ s3_stack = "NONE"
    /\ s3_stack' = "CREATE_IN_PROGRESS"
    /\ UNCHANGED <<deployVars, uploadVars, pipelineVars, stackVars, bt>>

\* s3_stack.py lines 67-79: creating TriggerDatasetUpload sends a Create
\* event to the upload handler, with the environment of lines 52-56.
s3_invoke_upload ==
    /\ s3_stack = "CREATE_IN_PROGRESS"
    /\ upload_invoke("Create", TRUE)

\* The Provider answers CloudFormation once the handler has returned; a
\* returned Status FAILED may or may not fail the resource.
s3_resource_created(honoured) ==
    /\ s3_stack = "CREATE_IN_PROGRESS"
    /\ up.pc = "returned"
    /\ s3_stack' = IF up.response.Status = "FAILED" /\ honoured
                   THEN "ROLLBACK_COMPLETE"
                   ELSE "CREATE_COMPLETE"
    /\ UNCHANGED <<deployVars, uploadVars, pipelineVars, stackVars, bt>>

s3_upload_exit ==
    /\ s3_stack # "CREATE_IN_PROGRESS"
    /\ upload_exit

NextApp ==
    \/ s3_create_stack
    \/ s3_invoke_upload
    \/ upload_request_type
    \/ upload_env
    \/ \E o \in DownloadOutcomes, c \in Contents : upload_download(o, c)
    \/ \E ok \in BOOLEAN : upload_put(ok)
    \/ \E honoured \in BOOLEAN : s3_resource_created(honoured)
    \/ s3_upload_exit
    \/ create_stack
    \/ \E r \in Resources, ok \in BOOLEAN, called \in BOOLEAN :
           create_resource(r, ok, called)
    \/ \E r \in Resources : delete_resource(r)
    \/ delete_complete
    \/ cr_trigger_invoke
    \/ \E ok \in BOOLEAN : trigger_start_pipeline_execution(ok)
    \/ trigger_exit

SpecApp == Init /\ [][NextApp]_vars

\* ======================================================= deploy handler
InGroupApproved(q) ==
    /\ packages[q].group = MODEL_PACKAGE_GROUP_NAME
    /\ packages[q].status = "Approved"

NoneApproved == ~\E q \in 1..Len(packages) : InGroupApproved(q)

\* p is the most recently created Approved package of the group.
NewestApproved(p) ==
    /\ p \in 1..Len(packages)
    /\ InGroupApproved(p)
    /\ \A q \in 1..Len(packages) : InGroupApproved(q) => q <= p

Issued(calls, op) == {k \in 1..Len(calls) : calls[k].op = op}

Succeeded(calls, op) == {k \in Issued(calls, op) : calls[k].ok}

Mutating ==
    {"create_model", "delete_endpoint", "delete_endpoint_config",
     "create_endpoint_config", "create_endpoint"}

Returned(code) == inv.pc = "returned" /\ inv.statusCode = code

HandlerStep == inv' # inv

\* C1: the package Step 1 hands to the handler is, when it is listed, the
\* most recently created Approved package of the group; and when the handler
\* returns 202 it has, in this invocation and in this order, created one
\* model whose container is that package, created the endpoint
\* configuration whose variant is that model, and issued a successful
\* create_endpoint as its last call.
C1_Returns202AfterDeployingNewestApproved ==
    [][/\ (inv.pc = "list" /\ inv'.pc = "prepare") =>
            /\ NewestApproved(inv'.model_package_arn)
            /\ inv'.calls[Len(inv'.calls)].ref = inv'.model_package_arn
       /\ (inv'.pc = "returned" /\ inv'.statusCode = 202) =>
            LET calls == inv'.calls
            IN  /\ \E kl \in Succeeded(calls, "list_model_packages"),
                      km \in Succeeded(calls, "create_model"),
                      kc \in Succeeded(calls, "create_endpoint_config"),
                      ke \in Succeeded(calls, "create_endpoint") :
                      /\ kl < km /\ km < kc /\ kc < ke /\ ke = Len(calls)
                      /\ calls[km].ref = calls[kl].ref
                      /\ calls[kc].name = calls[km].name
                      /\ calls[km].name \in models'
                /\ Cardinality(Issued(calls, "list_model_packages")) = 1
                /\ Cardinality(Issued(calls, "create_model")) = 1
                /\ Cardinality(Issued(calls, "create_endpoint_config")) = 1
                /\ Cardinality(Issued(calls, "create_endpoint")) = 1
      ]_vars

\* The handler returned 202 for package 2 while the older package 1 of the
\* group is Approved too.
C1_Witness ==
    /\ Returned(202)
    /\ inv.model_package_arn = 2
    /\ InGroupApproved(1)
    /\ InGroupApproved(2)

FrameOfStep ==
    /\ models' = models
    /\ endpoint' = endpoint
    /\ endpoint_config' = endpoint_config
    /\ \A k \in 1..Len(inv'.calls) : inv'.calls[k].op \notin Mutating

\* C2 as stated: when the handler lists the packages and the group holds no
\* Approved one, it returns 404 and has changed nothing in SageMaker.
C2_NoApprovedGives404 ==
    [][(inv.pc = "list" /\ HandlerStep /\ NoneApproved) =>
            /\ inv'.pc = "returned" /\ inv'.statusCode = 404
            /\ FrameOfStep
      ]_vars

\* C2 amended: when the handler lists the packages and the group holds no
\* Approved one, it returns at once, 404 if list_model_packages succeeded
\* and 500 if it raised, and has changed nothing in SageMaker.
C2_NoApprovedGives404Or500 ==
    [][(inv.pc = "list" /\ HandlerStep /\ NoneApproved) =>
            /\ inv'.pc = "returned"
            /\ inv'.statusCode =
                 (IF Succeeded(inv'.calls, "list_model_packages") # {}
                  THEN 404 ELSE 500)
            /\ FrameOfStep
      ]_vars

\* The handler returned 404 while an endpoint is in service and the registry
\* is full of packages none of which is an Approved one of the group.
C2_Witness ==
    /\ Returned(404)
    /\ endpoint = "InService"
    /\ Len(packages) = MaxPackages
    /\ NoneApproved

CleanupPcs == {"describe_endpoint", "delete_endpoint", "wait",
               "describe_config", "delete_config"}

CleanupReturns == inv.pc \in CleanupPcs /\ inv'.pc = "create_config"

DeleteCalls == {"delete_endpoint", "delete_endpoint_config"}

\* C10 as stated: when cleanup_existing_resources returns normally neither
\* the endpoint nor the endpoint configuration exists, and when neither
\* existed on entry it issues no delete call.
C10_CleanupLeavesNothing ==
    [][/\ CleanupReturns =>
            endpoint' = NoEndpoint /\ ~endpoint_config'
       /\ (inv.pc \in CleanupPcs /\ ~inv.before.endpoint /\ ~inv.before.config) =>
            \A k \in 1..Len(inv'.calls) : inv'.calls[k].op \notin DeleteCalls
      ]_vars

\* ================================================ deploy handler: errors
Running == inv.pc \notin {"idle", "returned", "killed"}

LastCall(calls) == calls[Len(calls)]

ReturnsProperly ==
    inv'.pc = "returned" =>
        /\ inv'.statusCode \in {202, 404, 500}
        /\ inv'.statusCode = 202 =>
             /\ inv'.calls # <<>>
             /\ LastCall(inv'.calls).op = "create_endpoint"
             /\ LastCall(inv'.calls).ok
        /\ inv'.statusCode = 500 <=> inv'.exc # ""

CaughtByCleanup == inv.pc \in CleanupPcs /\ inv'.exc = "ClientError"

StepOrder ==
    <<"list_model_packages", "create_model", "delete_endpoint",
      "endpoint_deleted", "delete_endpoint_config", "create_endpoint_config",
      "create_endpoint">>

Rank(op) == CHOOSE n \in 1..Len(StepOrder) : StepOrder[n] = op

\* C12: the calls of an invocation follow the order of Steps 1 to 5, each
\* issued at most once and only after list_model_packages and create_model
\* succeeded; the wait comes right after a successful delete_endpoint and
\* nowhere else; delete_endpoint_config is issued only when the wait, if
\* one was begun, has returned; create_endpoint is issued only after a
\* successful create_endpoint_config.
C12_CallsFollowStepOrder ==
    LET calls == inv.calls
        n     == Len(calls)
    IN  /\ \A j, k \in 1..n : j < k => Rank(calls[j].op) < Rank(calls[k].op)
        /\ \A k \in 1..n :
             /\ calls[k].op # "list_model_packages" =>
                  Succeeded(calls, "list_model_packages") = {1}
             /\ Rank(calls[k].op) > 2 => Succeeded(calls, "create_model") = {2}
             /\ calls[k].op = "endpoint_deleted" =>
                  calls[k-1].op = "delete_endpoint" /\ calls[k-1].ok
             /\ (calls[k].op = "delete_endpoint" /\ calls[k].ok /\ k < n) =>
                  calls[k+1].op = "endpoint_deleted"
             /\ calls[k].op = "delete_endpoint_config" =>
                  \A j \in 1..(k-1) :
                     calls[j].op \in {"delete_endpoint", "endpoint_deleted"} =>
                        /\ calls[j].ok => calls[k-1].op = "endpoint_deleted"
                        /\ calls[j].op = "endpoint_deleted" => calls[j].ok
             /\ calls[k].op = "create_endpoint" =>
                  \E j \in 1..(k-1) :
                     calls[j].op = "create_endpoint_config" /\ calls[j].ok

\* An invocation returned 202 after it had issued all seven calls.
C12_Witness ==
    /\ Returned(202)
    /\ Len(inv.calls) = Len(StepOrder)

\* ============================================= registration to deployment
Registers(x) ==
    /\ x \in 1..Len(executions')
    /\ x \in 1..Len(executions)
    /\ executions[x].registered = NoPackage
    /\ executions'[x].registered # NoPackage

\* C13: the step in which an execution completes RegisterTrainedModel adds
\* a package with status Approved to group IrisModelPackageGroup, and in
\* that same step, no approval in between, the rule queues an invocation of
\* the deploy handler for it; and the invocations that are queued are all
\* eventually started.
C13_RegistrationLeadsToDeployment ==
    /\ [][\A x \in 1..MaxExecutions :
            (/\ x \in 1..Len(executions) /\ x \in 1..Len(executions')
             /\ executions[x].status["RegisterTrainedModel"] # "Succeeded"
             /\ executions'[x].status["RegisterTrainedModel"] = "Succeeded") =>
                /\ Registers(x)
                /\ packages' = Append(packages, packages'[executions'[x].registered])
                /\ packages'[executions'[x].registered] =
                     [group |-> "IrisModelPackageGroup", status |-> "Approved"]
                /\ last_event'.routed
                /\ deploy_queue' = deploy_queue + 1
         ]_vars
    /\ (deploy_queue > 0) ~> (deploy_queue = 0)

\* Two executions registered their packages and the invocations queued for
\* them have both been started.
C13_Witness ==
    /\ \E x, y \in 1..Len(executions) :
          /\ x # y
          /\ executions[x].registered # NoPackage
          /\ executions[y].registered # NoPackage
    /\ deploy_queue = 0

\* ======================================================= upload handler
UploadDone == up.pc = "returned"

NonDelete == up.request_type # "Delete"

PutOf(body) == [Bucket |-> BUCKET_NAME, Key |-> DATASET_KEY, Body |-> body]

PutRequest(c) == [Bucket |-> c.Bucket, Key |-> c.Key, Body |-> c.Body]

\* C4 as stated: on a non-Delete event whose download answers 200 the
\* handler performs exactly one put_object of the downloaded bytes to
\* BUCKET_NAME under DATASET_KEY and returns SUCCESS with PhysicalResourceId
\* DATASET_KEY.
C4_Status200Uploads ==
    (UploadDone /\ NonDelete /\ up.http \in {"200", "200 read error"}) =>
        /\ Len(up.puts) = 1
        /\ PutRequest(up.puts[1]) = PutOf(up.dataset_content)
        /\ up.dataset_content \in Contents
        /\ up.response = success_response(DATASET_KEY)

\* C4 amended: on a non-Delete event whose download answers 200 and whose
\* body is read, the handler performs exactly one put_object of the
\* downloaded bytes to BUCKET_NAME under DATASET_KEY; it returns SUCCESS
\* with PhysicalResourceId DATASET_KEY, the object then holding those bytes,
\* if the put_object succeeds, and FAILED if it raises.
C4_Status200UploadsIfPutSucceeds ==
    (UploadDone /\ NonDelete /\ up.http = "200") =>
        /\ Len(up.puts) = 1
        /\ PutRequest(up.puts[1]) = PutOf(up.dataset_content)
        /\ up.dataset_content \in Contents
        /\ up.outcome = "returned"
        /\ up.puts[1].ok =>
             /\ up.response.Status = "SUCCESS"
             /\ up.response.PhysicalResourceId = DATASET_KEY
             /\ bucket = up.dataset_content
        /\ ~up.puts[1].ok => up.response.Status = "FAILED"

\* An Update event replaced the object uploaded before by new bytes.
C4_Witness ==
    /\ UploadDone /\ up.request_type = "Update" /\ up.http = "200"
    /\ up.response.Status = "SUCCESS"
    /\ up.bucket_before \in Contents
    /\ bucket # up.bucket_before

UploadFailed ==
    \/ ~up.env
    \/ up.http \notin {"", "200"}
    \/ up.puts # <<>> /\ ~up.puts[1].ok

\* C5: on a non-Delete event the handler always returns; it returns FAILED
\* with a Reason and PhysicalResourceId 'upload-failed' when a variable is
\* missing, the download fails or answers another status than 200, or
\* put_object fails; and unless the download completed with status 200 it
\* issues no put_object and the object is as it was.
C5_FailuresAreReturned ==
    (UploadDone /\ NonDelete) =>
        /\ up.outcome = "returned"
        /\ UploadFailed =>
             /\ up.response.Status = "FAILED"
             /\ up.response.Reason # ""
             /\ up.response.PhysicalResourceId = "upload-failed"
        /\ up.http # "200" => up.puts = <<>> /\ bucket = up.bucket_before

\* The download answered 204 on a Create event while an object uploaded
\* earlier was in the bucket.
C5_Witness ==
    /\ UploadDone /\ up.request_type = "Create" /\ up.http = "204"
    /\ up.response.Status = "FAILED"
    /\ bucket \in Contents

\* C6: on a Delete event the handler returns SUCCESS, downloads nothing and
\* issues no put_object; the object uploaded before is as it was.
C6_DeleteLeavesObject ==
    (UploadDone /\ up.request_type = "Delete") =>
        /\ up.outcome = "returned"
        /\ up.response.Status = "SUCCESS"
        /\ up.downloads = 0
        /\ up.puts = <<>>
        /\ bucket = up.bucket_before

\* A Delete event was answered while the uploaded object is in the bucket.
C6_Witness ==
    /\ UploadDone /\ up.request_type = "Delete"
    /\ bucket \in Contents

\* ====================================================== deployment rule
ApprovedIrisStateChange(e) ==
    /\ e.source = "aws.sagemaker"
    /\ e.detail_type = "SageMaker Model Package State Change"
    /\ e.ModelPackageGroupName = "IrisModelPackageGroup"
    /\ e.ModelApprovalStatus = "Approved"

\* C3: every 'SageMaker Model Package State Change' event of aws.sagemaker
\* for group IrisModelPackageGroup with status Approved queues one
\* invocation of the deploy Lambda, and no event with another group name or
\* another approval status queues one.
C3_RuleRoutesApprovedIrisOnly ==
    [][last_event' # last_event =>
         LET e == last_event'.event
         IN  /\ ApprovedIrisStateChange(e) =>
                  last_event'.routed /\ deploy_queue' = deploy_queue + 1
             /\ (\/ e.ModelPackageGroupName # "IrisModelPackageGroup"
                 \/ e.ModelApprovalStatus # "Approved") =>
                  ~last_event'.routed /\ deploy_queue' = deploy_queue
      ]_vars

\* The rule queued an invocation for the state change of a registered
\* package after it had evaluated another event.
C3_Witness ==
    /\ last_event.routed
    /\ last_event.n = 0
    /\ deploy_queue = 1
    /\ \E p \in 1..Len(packages) : last_event.event = StateChangeEvent(packages[p])

\* ====================================================== trigger handler
\* C7: a finished invocation has issued exactly one start_pipeline_execution
\* for PIPELINE_NAME with the single parameter InputDataUrl = INPUT_DATA_URL;
\* when the call succeeded the handler returned the ARN of the execution
\* that call started, when it failed the handler raised and returned
\* nothing; and no step of the handler starts an execution without
\* returning its ARN.
C7_TriggerStartsOneExecution ==
    [][/\ tr'.pc = "done" =>
            /\ Len(tr'.calls) = 1
            /\ tr'.calls[1].PipelineName = PIPELINE_NAME
            /\ tr'.calls[1].PipelineParameters =
                 <<[Name |-> "InputDataUrl", Value |-> INPUT_DATA_URL]>>
            /\ tr'.calls[1].ok =>
                 /\ tr'.outcome = "returned"
                 /\ tr'.response = tr'.calls[1].arn
                 /\ tr'.response \in 1..Len(executions')
                 /\ executions'[tr'.response].by = "trigger"
                 /\ executions'[tr'.response].input = INPUT_DATA_URL
            /\ ~tr'.calls[1].ok =>
                 tr'.outcome = "raised" /\ tr'.response = NoExecution
       /\ (tr' # tr /\ executions' # executions) =>
            /\ executions' = Append(executions, executions'[Len(executions')])
            /\ tr'.outcome = "returned"
            /\ tr'.response = Len(executions')
      ]_vars

\* The handler returned the ARN of the second execution; the first one was
\* started by somebody else.
C7_Witness ==
    /\ tr.pc = "done" /\ tr.outcome = "returned"
    /\ tr.response = 2
    /\ executions[1].by = "other"

\* ==================================================== pipeline execution
StatusOf(x, name) == executions[x].status[name]

\* C9: in every execution IrisTraining has started only if IrisPreprocessing
\* succeeded, RegisterTrainedModel has started only if IrisTraining
\* succeeded, and an execution has registered a package only if both
\* succeeded.
C9_StepsRunInOrder ==
    \A x \in 1..Len(executions) :
        /\ StatusOf(x, "IrisTraining") # "NotStarted" =>
             StatusOf(x, "IrisPreprocessing") = "Succeeded"
        /\ StatusOf(x, "RegisterTrainedModel") # "NotStarted" =>
             /\ StatusOf(x, "IrisTraining") = "Succeeded"
             /\ StatusOf(x, "IrisPreprocessing") = "Succeeded"
        /\ executions[x].registered # NoPackage =>
             /\ StatusOf(x, "IrisPreprocessing") = "Succeeded"
             /\ StatusOf(x, "IrisTraining") = "Succeeded"
             /\ StatusOf(x, "RegisterTrainedModel") = "Succeeded"
        /\ (\/ StatusOf(x, "IrisPreprocessing") = "Failed"
            \/ StatusOf(x, "IrisTraining") = "Failed") =>
             /\ executions[x].registered = NoPackage
             /\ StatusOf(x, "RegisterTrainedModel") = "NotStarted"

\* One execution registered its package and another failed in training.
C9_Witness ==
    \E x, y \in 1..Len(executions) :
        /\ executions[x].registered # NoPackage
        /\ StatusOf(y, "IrisTraining") = "Failed"

\* ===================================================== custom resources
Created == {"CREATE_COMPLETE", "UPDATE_IN_PROGRESS", "UPDATE_COMPLETE",
            "DELETE_IN_PROGRESS"}

\* C8: each of the two custom resources has invoked its Lambda exactly once
\* when the creation of the stack is complete, never invokes it a second
\* time, and invokes it in no step of a stack update, deletion or rollback.
C8_CustomResourcesInvokeOnceAtCreation ==
    [][/\ stack_status' \in Created =>
            \A r \in CustomResources : cr_calls'[r] = 1
       /\ \A r \in CustomResources : cr_calls'[r] <= 1
       /\ stack_status \notin {"NONE", "CREATE_IN_PROGRESS"} =>
            cr_calls' = cr_calls
      ]_vars

\* The stack, created a second time, is being deleted after an update that
\* reached both custom resources, one of which is already gone.
C8_Witness ==
    /\ stack_status = "DELETE_IN_PROGRESS"
    /\ "DeployLatestModelResource" \notin resources
    /\ "TriggerPipelineCustomResource" \in resources
    /\ \A r \in CustomResources : cr_calls[r] = 1

\* ================================================== order of creation
\* C15 as stated: TriggerPipelineCustomResource invokes the trigger Lambda
\* only when the pipeline resource IrisPipeline exists.
C15_TriggerAfterPipelineCreated ==
    [][cr_calls'["TriggerPipelineCustomResource"] >
          cr_calls["TriggerPipelineCustomResource"] =>
            "IrisPipeline" \in resources
      ]_vars

\* C14 as stated: when an execution is started by the trigger handler that
\* TriggerPipelineCustomResource invoked, the upload handler has written
\* the dataset object.
C14_UploadPrecedesFirstExecution ==
    [][(/\ Len(executions') = Len(executions) + 1
        /\ executions'[Len(executions')].by = "trigger") =>
            bucket \in Contents
      ]_vars

\* ===================================================== endpoint wait loop
Waiting == bt.pc \in {"describe", "sleep"}

Polled == bt.pc = "describe" /\ bt'.pc # "describe" /\ bt'.status # ""

\* C16: a pass of the loop that reads the status goes on to the inference
\* test exactly when the status is InService, returns False when it is
\* Failed or OutOfService, returns False when it is another one and more
\* than 600 seconds have elapsed, and sleeps otherwise; a request is sent
\* only after InService was read; and the loop is always left.
C16_WaitLoopTerminates ==
    /\ [][/\ Polled =>
               /\ bt'.status = bt.endpoint
               /\ bt'.elapsed = bt'.now - bt.start_time
               /\ bt'.pc = "test" <=> bt'.status = "InService"
               /\ bt'.status \in {"Failed", "OutOfService"} =>
                    bt'.pc = "returned" /\ bt'.result = "False"
               /\ (bt'.status \notin {"InService", "Failed", "OutOfService"}
                   /\ bt'.elapsed > 600) =>
                    bt'.pc = "returned" /\ bt'.result = "False"
               /\ (bt'.status \notin {"InService", "Failed", "OutOfService"}
                   /\ bt'.elapsed <= 600) =>
                    bt'.pc = "sleep"
          /\ bt'.pc = "test" => (bt.pc = "describe" \/ bt.pc = "test")
          /\ bt'.requests > bt.requests => bt.status = "InService"
         ]_vars
    /\ Waiting ~> (bt.pc \in {"test", "returned"})

\* The loop gave up on an endpoint still Creating when it read the status
\* for the first time after 600 seconds, having slept at exactly 600.
C16_Witness ==
    /\ bt.pc = "returned"
    /\ bt.result = "False"
    /\ bt.status = "Creating"
    /\ bt.elapsed = 620

====
